---- MODULE Spec2Model ----
(***************************************************************************)
(* A model of swagger_mcp: the OpenAPI/Swagger parser (parser.py), its     *)
(* data model (models.py) and the tool functions of server.py.             *)
(*                                                                         *)
(* Representation of Python values                                         *)
(*   - a str that the code lower()s, upper()s or searches is a sequence of *)
(*     one-character strings (a "text"); other strs are TLA+ strings;      *)
(*   - a dict that the code only indexes with literal keys is a record     *)
(*     whose DOMAIN is the set of keys present;                            *)
(*   - a dict that the code iterates (.items()) is a sequence of           *)
(*     <<key, value>> pairs in insertion order, keys pairwise distinct;    *)
(*   - Optional[X]: None is <<>>, a value v is <<v>>;                      *)
(*   - a call that raises yields [raised |-> TRUE, exc |-> ...], a call    *)
(*     that returns yields [raised |-> FALSE, value |-> ...].              *)
(***************************************************************************)
EXTENDS Naturals, Sequences, FiniteSets, TLC

(***************************************************************************)
(* Python built-ins used by the code                                       *)
(***************************************************************************)
None == <<>>

\* the last element of a non-empty list: list[-1]
Last(list) == list[Len(list)]

Some(v) == <<v>>

EmptyDict == <<>>

\* dict.get(key, default) on a record
Get(d, key, default) == IF key \in DOMAIN d THEN d[key] ELSE default

\* dict.get(key) on a record: None when the key is absent
GetOpt(d, key) == IF key \in DOMAIN d THEN Some(d[key]) ELSE None

\* an exception of type exc whose str() is msg
Raise(exc, msg) == [raised |-> TRUE, exc |-> exc, msg |-> msg]

Return(v) == [raised |-> FALSE, value |-> v]

UpperAlphabet ==
  <<"A","B","C","D","E","F","G","H","I","J","K","L","M",
    "N","O","P","Q","R","S","T","U","V","W","X","Y","Z">>

LowerAlphabet ==
  <<"a","b","c","d","e","f","g","h","i","j","k","l","m",
    "n","o","p","q","r","s","t","u","v","w","x","y","z">>

LowerChar(c) ==
  IF \E i \in DOMAIN UpperAlphabet : UpperAlphabet[i] = c
  THEN LowerAlphabet[CHOOSE i \in DOMAIN UpperAlphabet : UpperAlphabet[i] = c]
  ELSE c

UpperChar(c) ==
  IF \E i \in DOMAIN LowerAlphabet : LowerAlphabet[i] = c
  THEN UpperAlphabet[CHOOSE i \in DOMAIN LowerAlphabet : LowerAlphabet[i] = c]
  ELSE c

\* str.lower()
Lower(s) == [i \in DOMAIN s |-> LowerChar(s[i])]

\* str.upper()
Upper(s) == [i \in DOMAIN s |-> UpperChar(s[i])]

\* needle in hay, for two strs
Contains(needle, hay) ==
  \E i \in 0..Len(hay) :
    /\ i + Len(needle) <= Len(hay)
    /\ SubSeq(hay, i + 1, i + Len(needle)) = needle

\* x in list
InList(x, list) == \E i \in DOMAIN list : list[i] = x

\* the concatenation of a list of lists
RECURSIVE Flatten(_)
Flatten(lists) ==
  IF lists = <<>> THEN <<>> ELSE Head(lists) \o Flatten(Tail(lists))

(***************************************************************************)
(* Texts that appear as literals in the code                               *)
(***************************************************************************)
m_get == <<"g","e","t">>

m_post == <<"p","o","s","t">>

m_put == <<"p","u","t">>

m_delete == <<"d","e","l","e","t","e">>

m_patch == <<"p","a","t","c","h">>

m_head == <<"h","e","a","d">>

m_options == <<"o","p","t","i","o","n","s">>

\* parser.py line 128
HttpMethods == {m_get, m_post, m_put, m_delete, m_patch, m_head, m_options}

\* the path-item key 'parameters'
k_parameters == <<"p","a","r","a","m","e","t","e","r","s">>

(***************************************************************************)
(* parser.py: the normalizer                                               *)
(***************************************************************************)
\* SwaggerParser._parse_parameters: KeyError when a parameter has no 'name'
_parse_parameters_raises(params) ==
  \E i \in DOMAIN params : "name" \notin DOMAIN params[i]

ParseOneParameter(param) ==
  [name |-> param["name"],
   location |-> Get(param, "in", "query"),
   type |-> IF "schema" \in DOMAIN param
            THEN Get(param["schema"], "type", "string")
            ELSE Get(param, "type", "string"),
   required |-> Get(param, "required", FALSE),
   description |-> GetOpt(param, "description")]

_parse_parameters(params) == [i \in DOMAIN params |-> ParseOneParameter(params[i])]

\* mutant: the loop over the content map has no break, the last entry wins
ParseOneResponse_LastContent(status_code, response_data) ==
  LET hasContent == "content" \in DOMAIN response_data
      content == response_data["content"]
  IN [status_code |-> status_code,
      description |-> Get(response_data, "description", ""),
      content_type |->
        IF hasContent
        THEN (IF Len(content) > 0 THEN Some(Last(content)[1]) ELSE None)
        ELSE IF "schema" \in DOMAIN response_data THEN Some("application/json")
        ELSE None,
      schema |->
        IF hasContent
        THEN (IF Len(content) > 0 THEN GetOpt(Last(content)[2], "schema") ELSE None)
        ELSE IF "schema" \in DOMAIN response_data THEN Some(response_data["schema"])
        ELSE None]

\* one iteration of the loop of SwaggerParser._parse_responses
ParseOneResponse(status_code, response_data) ==
  LET hasContent == "content" \in DOMAIN response_data
      content == response_data["content"]
      content_type ==
        IF hasContent
        THEN (IF Len(content) > 0 THEN Some(content[1][1]) ELSE None)
        ELSE IF "schema" \in DOMAIN response_data
        THEN Some("application/json")
        ELSE None
      schema ==
        IF hasContent
        THEN (IF Len(content) > 0 THEN GetOpt(content[1][2], "schema") ELSE None)
        ELSE IF "schema" \in DOMAIN response_data
        THEN Some(response_data["schema"])
        ELSE None
  IN [status_code |-> status_code,
      description |-> Get(response_data, "description", ""),
      content_type |-> content_type,
      schema |-> schema]

_parse_responses(responses) ==
  [i \in DOMAIN responses |-> ParseOneResponse(responses[i][1], responses[i][2])]

\* the path-item's own 'parameters' list: path_item.get('parameters', [])
PathItemParameters(path_item) ==
  IF \E j \in DOMAIN path_item : path_item[j][1] = k_parameters
  THEN path_item[CHOOSE j \in DOMAIN path_item : path_item[j][1] = k_parameters][2]
  ELSE <<>>

IsMethodKey(key) == Lower(key) \in HttpMethods

\* the parameters handed to _parse_parameters for one operation
MergedParameters(operation, path_item) ==
  Get(operation, "parameters", <<>>) \o PathItemParameters(path_item)

MakeEndpoint(path, method, operation, path_item) ==
  [path |-> path,
   method |-> Upper(method),
   operation_id |-> GetOpt(operation, "operationId"),
   summary |-> GetOpt(operation, "summary"),
   description |-> GetOpt(operation, "description"),
   tags |-> Get(operation, "tags", <<>>),
   parameters |-> _parse_parameters(MergedParameters(operation, path_item)),
   responses |-> _parse_responses(Get(operation, "responses", <<>>)),
   deprecated |-> Get(operation, "deprecated", FALSE)]

\* the endpoints of one path item, in key order
RECURSIVE PathItemEndpoints(_, _, _)
PathItemEndpoints(path, path_item, j) ==
  IF j > Len(path_item) THEN <<>>
  ELSE (IF IsMethodKey(path_item[j][1])
        THEN <<MakeEndpoint(path, path_item[j][1], path_item[j][2], path_item)>>
        ELSE <<>>) \o PathItemEndpoints(path, path_item, j + 1)

PathsRaise(paths) ==
  \E i \in DOMAIN paths : \E j \in DOMAIN paths[i][2] :
    /\ IsMethodKey(paths[i][2][j][1])
    /\ _parse_parameters_raises(MergedParameters(paths[i][2][j][2], paths[i][2]))

\* SwaggerParser._parse_paths
_parse_paths(paths) ==
  Flatten([i \in DOMAIN paths |-> PathItemEndpoints(paths[i][1], paths[i][2], 1)])

\* SwaggerParser._parse_single_schema
_parse_single_schema(name, schema_def) ==
  LET props == Get(schema_def, "properties", <<>>)
      required == Get(schema_def, "required", <<>>)
  IN [name |-> name,
      type |-> Get(schema_def, "type", "object"),
      description |-> GetOpt(schema_def, "description"),
      properties |->
        [i \in DOMAIN props |->
           [name |-> props[i][1],
            type |-> Get(props[i][2], "type", "string"),
            required |-> InList(props[i][1], required),
            items |-> GetOpt(props[i][2], "items")]],
      required |-> required]

\* mutant: 'definitions' is never read
_parse_schemas_NoDefinitions(spec_dict) ==
  LET schemas_dict == Get(Get(spec_dict, "components", EmptyDict), "schemas", <<>>)
  IN [i \in DOMAIN schemas_dict |->
        _parse_single_schema(schemas_dict[i][1], schemas_dict[i][2])]

\* SwaggerParser._parse_schemas
_parse_schemas(spec_dict) ==
  LET components == Get(spec_dict, "components", EmptyDict)
      from3 == Get(components, "schemas", <<>>)
      schemas_dict == IF from3 = <<>> THEN Get(spec_dict, "definitions", <<>>)
                      ELSE from3
  IN [i \in DOMAIN schemas_dict |->
        _parse_single_schema(schemas_dict[i][1], schemas_dict[i][2])]

\* mutant: the synthesized url leaves the basePath out
ParseServers_NoBasePath(spec_dict) ==
  LET servers == Get(spec_dict, "servers", <<>>)
  IN IF servers = <<>> /\ "host" \in DOMAIN spec_dict
     THEN (IF Get(spec_dict, "schemes", <<"http">>) = <<>>
           THEN Raise("IndexError", "list index out of range")
           ELSE Return(<<[url |-> Get(spec_dict, "schemes", <<"http">>)[1]
                                  \o "://" \o spec_dict["host"]]>>))
     ELSE Return(servers)

\* SwaggerParser._parse_spec, lines 95-101
ParseServers(spec_dict) ==
  LET servers == Get(spec_dict, "servers", <<>>)
  IN IF servers = <<>> /\ "host" \in DOMAIN spec_dict
     THEN (IF Get(spec_dict, "schemes", <<"http">>) = <<>>
           THEN Raise("IndexError", "list index out of range")
           ELSE Return(<<[url |-> Get(spec_dict, "schemes", <<"http">>)[1]
                                  \o "://" \o spec_dict["host"]
                                  \o Get(spec_dict, "basePath", "")]>>))
     ELSE Return(servers)

\* SwaggerParser._parse_spec, lines 110-112
ParseSecurityDefinitions(spec_dict) ==
  LET sd == Get(spec_dict, "securityDefinitions", <<>>)
  IN IF sd = <<>>
     THEN Get(Get(spec_dict, "components", EmptyDict), "securitySchemes", <<>>)
     ELSE sd

ParseInfo(spec_dict) ==
  LET info_data == Get(spec_dict, "info", EmptyDict)
  IN [title |-> Get(info_data, "title", "Unknown API"),
      version |-> Get(info_data, "version", "1.0.0"),
      description |-> GetOpt(info_data, "description")]

\* SwaggerParser._parse_spec on a decoded value: [pytype, d]
_parse_spec(decoded) ==
  IF decoded.pytype # "dict"
  THEN Raise("AttributeError", "object has no attribute 'get'")
  ELSE LET spec_dict == decoded.d
           servers == ParseServers(spec_dict)
       IN IF servers.raised THEN servers
          ELSE IF PathsRaise(Get(spec_dict, "paths", <<>>)) THEN Raise("KeyError", "'name'")
          ELSE Return([info |-> ParseInfo(spec_dict),
                       apis |-> _parse_paths(Get(spec_dict, "paths", <<>>)),
                       schemas |-> _parse_schemas(spec_dict),
                       servers |-> servers.value,
                       security_definitions |-> ParseSecurityDefinitions(spec_dict)])


(***************************************************************************)
(* parser.py: the queries of SwaggerParser.  `current` is the value of     *)
(* self.current_document at the read: None or Some(document).              *)
(***************************************************************************)
\* mutant: the summary is not searched
SearchMatches_NoSummary(api, query_lower) ==
  \/ Contains(query_lower, Lower(api.path))
  \/ Contains(query_lower, Lower(api.method))
  \/ (api.description # None /\ api.description[1] # <<>>
        /\ Contains(query_lower, Lower(api.description[1])))
  \/ \E t \in DOMAIN api.tags : Contains(query_lower, Lower(api.tags[t]))

\* the condition of the if of SwaggerParser.search_apis, lines 269-273
SearchMatches(api, query_lower) ==
  \/ Contains(query_lower, Lower(api.path))
  \/ Contains(query_lower, Lower(api.method))
  \/ (api.summary # None /\ api.summary[1] # <<>>
        /\ Contains(query_lower, Lower(api.summary[1])))
  \/ (api.description # None /\ api.description[1] # <<>>
        /\ Contains(query_lower, Lower(api.description[1])))
  \/ \E t \in DOMAIN api.tags : Contains(query_lower, Lower(api.tags[t]))

\* SwaggerParser.search_apis
search_apis(current, query) ==
  IF current = None THEN <<>>
  ELSE SelectSeq(current[1].apis, LAMBDA api : SearchMatches(api, Lower(query)))

\* mutant: the tags are compared ignoring case
get_apis_by_tag_IgnoreCase(current, tag) ==
  IF current = None THEN <<>>
  ELSE SelectSeq(current[1].apis,
                 LAMBDA api : \E k \in DOMAIN api.tags :
                                Lower(api.tags[k]) = Lower(tag))

\* SwaggerParser.get_apis_by_tag
get_apis_by_tag(current, tag) ==
  IF current = None THEN <<>>
  ELSE SelectSeq(current[1].apis, LAMBDA api : InList(tag, api.tags))

\* SwaggerParser.get_schema_by_name
get_schema_by_name(current, name) ==
  IF current = None THEN None
  ELSE IF \E i \in DOMAIN current[1].schemas : current[1].schemas[i].name = name
  THEN Some(current[1].schemas[
         CHOOSE i \in DOMAIN current[1].schemas :
           /\ current[1].schemas[i].name = name
           /\ \A j \in 1..(i - 1) : current[1].schemas[j].name # name])
  ELSE None

(***************************************************************************)
(* Bounds of the model                                                     *)
(***************************************************************************)
\* most status-code entries of one operation
MaxResponses == 2

\* most path entries of one source document
MaxPaths == 2

(***************************************************************************)
(* Source documents handed to the normalizer                               *)
(***************************************************************************)
\* a dict with the key absent, or present with one of the values
OptKey(key, values) == {EmptyDict} \cup {key :> v : v \in values}

\* the sequences of length 1..n over S without a repeated element
InjectiveSeqs(S, n) ==
  UNION {{s \in [1..k -> S] : \A i, j \in 1..k : i # j => s[i] # s[j]} : k \in 1..n}

\* every dict with pairwise distinct keys from Keys, at most n entries,
\* values from Values, as a sequence of pairs
Dicts(Keys, Values, n) ==
  {<<>>} \cup
  UNION {{[i \in DOMAIN ks |-> <<ks[i], vs[i]>>] : vs \in [DOMAIN ks -> Values]}
           : ks \in InjectiveSeqs(Keys, n)}

AsDict(d) == [pytype |-> "dict", d |-> d]

\* --- servers, host, schemes, basePath ---
ServerEntries ==
  {<<>>, <<[url |-> "https://a.example.org"]>>,
   <<[url |-> "https://a.example.org"], [url |-> "/v2", description |-> "relative"]>>}

ServerDicts ==
  {a @@ b @@ c @@ d :
     a \in OptKey("servers", ServerEntries),
     b \in OptKey("host", {"api.example.com", "localhost:8080"}),
     c \in OptKey("schemes", {<<>>, <<"https">>, <<"ws", "https">>}),
     d \in OptKey("basePath", {"/v1"})}

\* --- responses ---
schemaPet == [ref |-> "#/definitions/Pet"]

schemaList == [type |-> "array"]

schemaError == [type |-> "object"]

ContentMaps ==
  {<<>>,
   << <<"application/xml", [schema |-> schemaList]>>,
      <<"application/json", [schema |-> schemaPet]>> >>,
   << <<"text/plain", EmptyDict>> >>}

ResponseDatas ==
  ({a @@ b : a \in OptKey("content", ContentMaps), b \in OptKey("schema", {schemaError})}
     \ {EmptyDict})
  \cup {[description |-> "ok"]}

StatusCodes == {"200", "404", "default"}

t_pets == <<"/","p","e","t","s">>

t_store == <<"/","s","t","o","r","e">>

t_x == <<"/","x">>

ResponseDicts ==
  {[paths |-> << <<t_pets, << <<m_get, [responses |-> r]>> >> >> >>] :
     r \in Dicts(StatusCodes, ResponseDatas, MaxResponses)}


(***************************************************************************)
(* Texts used as inputs                                                    *)
(***************************************************************************)
st_url == <<"u","r","l">>

st_URL == <<"U","R","L">>

st_file == <<"f","i","l","e">>

st_ftp == <<"f","t","p">>

n_application_json == <<"a","p","p","l","i","c","a","t","i","o","n","/","j","s","o","n">>

n_application_yaml == <<"a","p","p","l","i","c","a","t","i","o","n","/","y","a","m","l">>

n_text_yaml == <<"t","e","x","t","/","y","a","m","l">>

ct_json == <<"a","p","p","l","i","c","a","t","i","o","n","/","j","s","o","n",";"," ","c","h","a","r","s","e","t","=","u","t","f","-","8">>

ct_yaml == <<"a","p","p","l","i","c","a","t","i","o","n","/","y","a","m","l">>

ct_text_yaml == <<"t","e","x","t","/","y","a","m","l",";"," ","c","h","a","r","s","e","t","=","u","t","f","-","8">>

t_Pet == <<"P","e","t">>

t_pet == <<"p","e","t">>

t_PET == <<"P","E","T">>

t_store_tag == <<"s","t","o","r","e">>

t_Store == <<"S","t","o","r","e">>

t_my_pEt == <<"m","y"," ","p","E","t">>

t_orders == <<"o","r","d","e","r","s">>

t_GET == <<"G","E","T">>

t_Post == <<"P","o","s","t">>

t_zz == <<"z","z">>

t_PETS_path == <<"/","P","E","T","S">>

t_empty == <<>>

(***************************************************************************)
(* parser.py: loading.  A load returns [slot, out]: the value of           *)
(* self.current_document when it ends, and what the call returned/raised.  *)
(***************************************************************************)
\* mutant: whatever the content type, the other decoding is tried when the
\* preferred one fails
DecodeResponse_AlwaysFallback(response) ==
  IF \/ Contains(n_application_yaml, response.content_type)
     \/ Contains(n_text_yaml, response.content_type)
  THEN (IF response.body.yaml.raised THEN response.body.json ELSE response.body.yaml)
  ELSE IF response.body.json.raised THEN response.body.yaml
  ELSE response.body.json

\* load_from_url lines 38-48: the decoding chosen by the content-type header
DecodeResponse(response) ==
  IF Contains(n_application_json, response.content_type) THEN response.body.json
  ELSE IF \/ Contains(n_application_yaml, response.content_type)
          \/ Contains(n_text_yaml, response.content_type)
  THEN response.body.yaml
  ELSE IF response.body.json.raised THEN response.body.yaml
  ELSE response.body.json

\* mutant: the slot is cleared before the source is parsed
ParseAndStore_ClearsFirst(current, decoded) ==
  LET parsed == _parse_spec(decoded)
  IN IF parsed.raised THEN [slot |-> None, out |-> parsed]
     ELSE [slot |-> Some(parsed.value), out |-> Return(parsed.value)]

\* mutant: the endpoints of the new document are added to those of the old
ParseAndStore_Merges(current, decoded) ==
  LET parsed == _parse_spec(decoded)
      merged == IF current = None THEN parsed.value
                ELSE [parsed.value EXCEPT !.apis = current[1].apis \o @,
                                          !.schemas = current[1].schemas \o @]
  IN IF parsed.raised THEN [slot |-> current, out |-> parsed]
     ELSE [slot |-> Some(merged), out |-> Return(merged)]

\* lines 50-51 (and 68-69): self.current_document = self._parse_spec(...);
\* return self.current_document
ParseAndStore(current, decoded) ==
  LET parsed == _parse_spec(decoded)
  IN IF parsed.raised THEN [slot |-> current, out |-> parsed]
     ELSE [slot |-> Some(parsed.value), out |-> Return(parsed.value)]

\* SwaggerParser.load_from_url
load_from_url(current, response) ==
  IF ~response.ok
  THEN [slot |-> current,
        out |-> Raise("ValueError", "Failed to load Swagger document from URL: {e}")]
  ELSE IF DecodeResponse(response).raised
  THEN [slot |-> current,
        out |-> Raise("ValueError", "Failed to parse Swagger document: {e}")]
  ELSE ParseAndStore(current, DecodeResponse(response).value)

\* SwaggerParser.load_from_file: every exception becomes a ValueError
load_from_file(current, file) ==
  IF ~file.exists \/ file.read.raised
  THEN [slot |-> current,
        out |-> Raise("ValueError", "Failed to load Swagger document from file: {e}")]
  ELSE LET r == ParseAndStore(current, file.read.value)
       IN IF r.out.raised
          THEN [slot |-> r.slot,
                out |-> Raise("ValueError",
                              "Failed to load Swagger document from file: {e}")]
          ELSE r

(***************************************************************************)
(* server.py: the tools.  Each tool takes the values its successive reads  *)
(* of parser.current_document return, and yields what the call returns or  *)
(* raises.                                                                 *)
(***************************************************************************)
Failure(message) == Return([success |-> FALSE, error |-> message])

\* mutant: an empty success instead of a failure
NotLoaded_EmptySuccess == Return([success |-> TRUE, apis |-> <<>>, total_count |-> 0])

NotLoaded == Failure("No Swagger document loaded. Please load a document first.")

\* reading an attribute of None
NoneAttribute(name) ==
  Raise("AttributeError", "'NoneType' object has no attribute '" \o name \o "'")

\* load_swagger lines 43-53
LoadSuccess(doc) ==
  Return([success |-> TRUE,
          message |-> "Successfully loaded Swagger document: {doc.info.title}",
          info |-> [title |-> doc.info.title,
                    version |-> doc.info.version,
                    description |-> doc.info.description,
                    api_count |-> Len(doc.apis),
                    schema_count |-> Len(doc.schemas)]])

\* mutant: no except clause
CatchException_Missing(out) == out

\* load_swagger lines 54-58: except Exception
CatchException(out) ==
  IF out.raised THEN Failure("Failed to load Swagger document: " \o out.msg) ELSE out

\* load_swagger lines 43-58, after the parser's load returned or raised
FinishLoad(r) ==
  [slot |-> r.slot,
   out |-> CatchException(IF r.out.raised THEN r.out ELSE LoadSuccess(r.out.value))]

\* load_swagger lines 33-36: the parser's load for a source_type 'url' or 'file'
LoadAttempt(current, source_type, env) ==
  IF Lower(source_type) = st_url THEN load_from_url(current, env.response)
  ELSE load_from_file(current, env.file)

ValidSourceType(source_type) == Lower(source_type) \in {st_url, st_file}

InvalidSourceTypeResult ==
  Failure("Invalid source_type: {source_type}. Must be 'url' or 'file'")

\* load_swagger; env is what the URL and the file system answer
load_swagger(current, source_type, env) ==
  IF ValidSourceType(source_type)
  THEN FinishLoad(LoadAttempt(current, source_type, env))
  ELSE [slot |-> current, out |-> InvalidSourceTypeResult]

\* mutant: the counts are taken from the document of the first read
get_swagger_info_MixedReads(read1, read2) ==
  IF read1 = None THEN NotLoaded
  ELSE IF read2 = None THEN NoneAttribute("info")
  ELSE LET doc == read2[1]
       IN Return([success |-> TRUE,
                  info |-> [title |-> doc.info.title,
                            version |-> doc.info.version,
                            description |-> doc.info.description,
                            servers |-> doc.servers,
                            api_count |-> Len(read1[1].apis),
                            schema_count |-> Len(read1[1].schemas),
                            security_definitions |->
                              [i \in DOMAIN doc.security_definitions |->
                                 doc.security_definitions[i][1]]]])

\* get_swagger_info
get_swagger_info(read1, read2) ==
  IF read1 = None THEN NotLoaded
  ELSE IF read2 = None THEN NoneAttribute("info")
  ELSE LET doc == read2[1]
       IN Return([success |-> TRUE,
                  info |-> [title |-> doc.info.title,
                            version |-> doc.info.version,
                            description |-> doc.info.description,
                            servers |-> doc.servers,
                            api_count |-> Len(doc.apis),
                            schema_count |-> Len(doc.schemas),
                            security_definitions |->
                              [i \in DOMAIN doc.security_definitions |->
                                 doc.security_definitions[i][1]]]])

\* one entry of the api_list of list_apis (lines 120-128)
ApiListEntry(api) ==
  [path |-> api.path, method |-> api.method, summary |-> api.summary,
   description |-> api.description, tags |-> api.tags,
   operation_id |-> api.operation_id, deprecated |-> api.deprecated]

\* mutant: the tags are compared as they are written
TagFilter_Exact(apis, tag) ==
  IF tag = None \/ tag = Some(<<>>) THEN apis
  ELSE SelectSeq(apis, LAMBDA api : InList(tag[1], api.tags))

\* list_apis line 113
TagFilter(apis, tag) ==
  IF tag = None \/ tag = Some(<<>>) THEN apis
  ELSE SelectSeq(apis, LAMBDA api :
         \E t \in DOMAIN api.tags : Lower(api.tags[t]) = Lower(tag[1]))

\* list_apis line 116
MethodFilter(apis, method) ==
  IF method = None \/ method = Some(<<>>) THEN apis
  ELSE SelectSeq(apis, LAMBDA api : Lower(api.method) = Lower(method[1]))

\* list_apis
list_apis(read1, read2, tag, method) ==
  IF read1 = None THEN NotLoaded
  ELSE IF read2 = None THEN NoneAttribute("apis")
  ELSE LET apis == MethodFilter(TagFilter(read2[1].apis, tag), method)
       IN Return([success |-> TRUE,
                  apis |-> [i \in DOMAIN apis |-> ApiListEntry(apis[i])],
                  total_count |-> Len(apis)])

\* mutant: the loop has no break, the last candidate that matches is kept
FindApi_Last(apis, path, method) ==
  LET hit(i) == apis[i].path = path /\ Upper(apis[i].method) = Upper(method)
  IN IF \E i \in DOMAIN apis : hit(i)
     THEN Some(apis[CHOOSE i \in DOMAIN apis :
                      hit(i) /\ \A j \in (i + 1)..Len(apis) : ~hit(j)])
     ELSE None

\* get_api_details lines 155-159: the first candidate that matches
FindApi(apis, path, method) ==
  LET hit(i) == apis[i].path = path /\ Upper(apis[i].method) = Upper(method)
  IN IF \E i \in DOMAIN apis : hit(i)
     THEN Some(apis[CHOOSE i \in DOMAIN apis :
                      hit(i) /\ \A j \in 1..(i - 1) : ~hit(j)])
     ELSE None

\* get_api_details
get_api_details(read1, read2, path, method) ==
  IF read1 = None THEN NotLoaded
  ELSE IF read2 = None THEN NoneAttribute("apis")
  ELSE LET api == FindApi(read2[1].apis, path, method)
       IN IF api = None THEN Failure("API not found: {method.upper()} {path}")
          ELSE Return([success |-> TRUE,
                       api |-> [path |-> api[1].path,
                                method |-> api[1].method,
                                operation_id |-> api[1].operation_id,
                                summary |-> api[1].summary,
                                description |-> api[1].description,
                                tags |-> api[1].tags,
                                parameters |-> api[1].parameters,
                                responses |-> api[1].responses,
                                deprecated |-> api[1].deprecated]])

\* one entry of the api_list of the search_apis tool (lines 226-233)
SearchListEntry(api) ==
  [path |-> api.path, method |-> api.method, summary |-> api.summary,
   description |-> api.description, tags |-> api.tags,
   operation_id |-> api.operation_id]

\* the search_apis tool; read2 and read3 are the reads of parser.search_apis
search_apis_tool(read1, read2, read3, query) ==
  IF read1 = None THEN NotLoaded
  ELSE IF read2 # None /\ read3 = None THEN NoneAttribute("apis")
  ELSE LET results == search_apis(IF read2 = None THEN None ELSE read3, query)
       IN Return([success |-> TRUE,
                  query |-> query,
                  apis |-> [i \in DOMAIN results |-> SearchListEntry(results[i])],
                  result_count |-> Len(results)])

\* list_schemas
list_schemas(read1, read2) ==
  IF read1 = None THEN NotLoaded
  ELSE IF read2 = None THEN NoneAttribute("schemas")
  ELSE LET schemas == read2[1].schemas
       IN Return([success |-> TRUE,
                  schemas |-> [i \in DOMAIN schemas |->
                                 [name |-> schemas[i].name,
                                  type |-> schemas[i].type,
                                  description |-> schemas[i].description,
                                  property_count |-> Len(schemas[i].properties),
                                  required_fields |-> schemas[i].required]],
                  total_count |-> Len(schemas)])

\* get_schema_details; read2 and read3 are the reads of get_schema_by_name
get_schema_details(read1, read2, read3, name) ==
  IF read1 = None THEN NotLoaded
  ELSE IF read2 # None /\ read3 = None THEN NoneAttribute("schemas")
  ELSE LET schema == get_schema_by_name(IF read2 = None THEN None ELSE read3, name)
       IN IF schema = None THEN Failure("Schema not found: {name}")
          ELSE Return([success |-> TRUE,
                       schema |-> [name |-> schema[1].name,
                                   type |-> schema[1].type,
                                   description |-> schema[1].description,
                                   properties |-> schema[1].properties,
                                   required |-> schema[1].required]])

(***************************************************************************)
(* The documents, HTTP responses and files the tool server is run against  *)
(***************************************************************************)
\* a Swagger 2.0 document
srcA ==
  [swagger |-> "2.0",
   info |-> [title |-> "Pet API", version |-> "1.2.0", description |-> "pets"],
   host |-> "api.example.com",
   schemes |-> <<"https">>,
   basePath |-> "/v1",
   paths |->
     << <<t_pets,
          << <<m_get, [summary |-> t_orders, tags |-> <<t_pet>>,
                       parameters |-> <<[name |-> "limit", in |-> "query",
                                         type |-> "integer"]>>,
                       responses |-> << <<"200", [description |-> "ok",
                                                   schema |-> schemaList]>> >>]>>,
             <<k_parameters, <<[name |-> "trace", in |-> "header"]>> >> >> >>,
        <<t_x,
          << <<m_get, [summary |-> t_Pet, operationId |-> "getX"]>> >> >> >>,
   definitions |->
     << <<"Pet", [type |-> "object", required |-> <<"id">>,
                  properties |-> << <<"id", [type |-> "integer"]>>,
                                    <<"name", EmptyDict>> >>]>> >>,
   securityDefinitions |-> << <<"api_key", [type |-> "apiKey"]>> >>]

\* an OpenAPI 3.0 document
srcB ==
  [openapi |-> "3.0.0",
   info |-> [title |-> "Store API"],
   servers |-> <<[url |-> "https://store.example.org"]>>,
   paths |->
     << <<t_store,
          << <<t_Post, [description |-> t_my_pEt, tags |-> <<t_Store>>,
                        responses |-> << <<"201", [content |->
                            << <<"application/json", [schema |-> schemaPet]>> >>]>>,
                                         <<"default", EmptyDict>> >>]>> >> >>,
        <<t_pets,
          << <<m_get, [tags |-> <<t_Store, t_PET>>,
                       parameters |-> <<[name |-> "limit", in |-> "query",
                                         schema |-> [type |-> "integer"]]>>]>> >> >> >>,
   components |->
     [schemas |-> << <<"Order", [properties |->
                                   << <<"id", [type |-> "integer"]>> >>]>> >>,
      securitySchemes |-> << <<"oauth", [type |-> "oauth2"]>> >>]]

\* a document whose 'schemes' list is empty: _parse_spec raises IndexError
srcNoScheme == [info |-> [title |-> "Broken"], host |-> "h", schemes |-> <<>>]

\* a document with a parameter without 'name': _parse_parameters raises KeyError
srcNoName ==
  [paths |-> << <<t_x, << <<m_get, [parameters |-> <<[in |-> "query"]>>]>> >> >> >>]

JSONDecodeError == Raise("JSONDecodeError", "Expecting value")

YAMLError == Raise("YAMLError", "could not find expected ':'")

\* a response body, by what response.json() and yaml.safe_load(response.text)
\* make of it
Bodies ==
  {\* JSON text, which YAML reads too
   [json |-> Return(AsDict(srcA)), yaml |-> Return(AsDict(srcA))],
   [json |-> Return(AsDict(EmptyDict)), yaml |-> Return(AsDict(EmptyDict))],
   [json |-> Return(AsDict(srcNoScheme)), yaml |-> Return(AsDict(srcNoScheme))],
   \* YAML text that is not JSON
   [json |-> JSONDecodeError, yaml |-> Return(AsDict(srcB))],
   [json |-> JSONDecodeError, yaml |-> Return(AsDict(srcNoName))],
   \* a bare word: a YAML scalar
   [json |-> JSONDecodeError, yaml |-> Return([pytype |-> "str"])],
   \* JSON text indented with tabs, which YAML rejects
   [json |-> Return(AsDict(srcB)), yaml |-> YAMLError],
   \* neither
   [json |-> JSONDecodeError, yaml |-> YAMLError]}

ContentTypes == {t_empty, ct_json, ct_yaml, ct_text_yaml}

NoResponse ==
  [ok |-> FALSE, content_type |-> t_empty,
   body |-> [json |-> JSONDecodeError, yaml |-> YAMLError]]

HttpResponses ==
  {NoResponse} \cup
  {[ok |-> TRUE, content_type |-> ct, body |-> b] : ct \in ContentTypes, b \in Bodies}

NoFile == [exists |-> FALSE, read |-> Raise("OSError", "No such file")]

Files ==
  {NoFile}
  \cup {[exists |-> TRUE, read |-> r] :
          r \in {Raise("OpenAPIError", "cannot read"), Return(AsDict(srcA)),
                 Return(AsDict(srcB)), Return(AsDict(srcNoScheme))}}

\* what the world answers to a load: only the part the source type reads varies
Envs(source_type) ==
  IF Lower(source_type) = st_url
  THEN {[response |-> r, file |-> NoFile] : r \in HttpResponses}
  ELSE IF Lower(source_type) = st_file
  THEN {[response |-> NoResponse, file |-> f] : f \in Files}
  ELSE {[response |-> NoResponse, file |-> NoFile]}

SourceTypes == {st_url, st_URL, st_file, st_ftp}

Queries == {t_pet, t_PET, t_empty, m_get, t_zz, t_store_tag}

PathArgs == {t_pets, t_store, t_PETS_path}

MethodArgs == {m_get, t_GET, t_Post, t_zz}

TagArgs == {None, Some(t_empty), Some(t_pet), Some(t_Store)}

MethodFilterArgs == {None, Some(m_get), Some(t_Post)}

SchemaNames == {"Pet", "Order", "pet"}

(***************************************************************************)
(* State                                                                   *)
(***************************************************************************)
VARIABLES
  current_document,  \* parser.current_document: None or Some(document)
  call,              \* the last call: the tool and its arguments
  result,            \* what the last call returned or raised
  before,            \* parser.current_document when the last call began
  loaded,            \* the decoded sources of the successful loads, latest last
  source,            \* the source document under normalization (SpecParser)
  twin,              \* current_document of a second SwaggerParser (SpecDialects)
  threads            \* the calls in progress (SpecConcurrent)

vars == <<current_document, call, result, before, loaded, source, twin, threads>>

NoCall == [tool |-> "none"]

\* the decoded source a load of env would hand to _parse_spec: None when the
\* load does not get that far
DecodedBy(source_type, env) ==
  IF Lower(source_type) = st_url
  THEN (IF env.response.ok /\ ~DecodeResponse(env.response).raised
        THEN Some(DecodeResponse(env.response).value) ELSE None)
  ELSE IF Lower(source_type) = st_file
  THEN (IF env.file.exists /\ ~env.file.read.raised
        THEN Some(env.file.read.value) ELSE None)
  ELSE None

\* the last two of the sources loaded so far
Remember(history, decoded) ==
  IF Len(history) < 2 THEN Append(history, decoded)
  ELSE <<history[2], decoded>>

(***************************************************************************)
(* Spec: the tool server, one call at a time                               *)
(***************************************************************************)
Init ==
  /\ current_document = None
  /\ call = NoCall
  /\ result = Return(None)
  /\ before = None
  /\ loaded = <<>>
  /\ source = EmptyDict
  /\ twin = None
  /\ threads = <<>>

LoadSwagger ==
  \E source_type \in SourceTypes : \E env \in Envs(source_type) :
    LET r == load_swagger(current_document, source_type, env)
    IN /\ current_document' = r.slot
       /\ result' = r.out
       /\ call' = [tool |-> "load_swagger", source_type |-> source_type, env |-> env]
       /\ before' = current_document
       /\ loaded' = IF ~r.out.raised /\ r.out.value.success
                    THEN Remember(loaded, DecodedBy(source_type, env)[1])
                    ELSE loaded
       /\ UNCHANGED <<source, twin, threads>>

\* a query tool: it leaves the parser as it is
Query(c, r) ==
  /\ call' = c
  /\ result' = r
  /\ before' = current_document
  /\ UNCHANGED <<current_document, loaded, source, twin, threads>>

GetSwaggerInfo ==
  Query([tool |-> "get_swagger_info"],
        get_swagger_info(current_document, current_document))

ListApis ==
  \E tag \in TagArgs, method \in MethodFilterArgs :
    Query([tool |-> "list_apis", tag |-> tag, method |-> method],
          list_apis(current_document, current_document, tag, method))

GetApiDetails ==
  \E path \in PathArgs, method \in MethodArgs :
    Query([tool |-> "get_api_details", path |-> path, method |-> method],
          get_api_details(current_document, current_document, path, method))

SearchApis ==
  \E query \in Queries :
    Query([tool |-> "search_apis", query |-> query],
          search_apis_tool(current_document, current_document, current_document,
                           query))

ListSchemas ==
  Query([tool |-> "list_schemas"], list_schemas(current_document, current_document))

GetSchemaDetails ==
  \E name \in SchemaNames :
    Query([tool |-> "get_schema_details", name |-> name],
          get_schema_details(current_document, current_document, current_document,
                             name))

Next ==
  \/ LoadSwagger
  \/ GetSwaggerInfo
  \/ ListApis
  \/ GetApiDetails
  \/ SearchApis
  \/ ListSchemas
  \/ GetSchemaDetails

Spec == Init /\ [][Next]_vars

(***************************************************************************)
(* Claims about the tool server (Spec)                                     *)
(***************************************************************************)
IsLoad == call.tool = "load_swagger"

UrlLoad == IsLoad /\ Lower(call.source_type) = st_url

FileLoad == IsLoad /\ Lower(call.source_type) = st_file

InvalidSourceType == IsLoad /\ ~UrlLoad /\ ~FileLoad

RetrievalFails ==
  \/ UrlLoad /\ ~call.env.response.ok
  \/ FileLoad /\ ~call.env.file.exists

DecodingFails ==
  \/ UrlLoad /\ call.env.response.ok /\ DecodeResponse(call.env.response).raised
  \/ FileLoad /\ call.env.file.exists /\ call.env.file.read.raised

NormalizationFails ==
  /\ IsLoad
  /\ DecodedBy(call.source_type, call.env) # None
  /\ _parse_spec(DecodedBy(call.source_type, call.env)[1]).raised

Succeeded == ~result.raised /\ result.value.success

Failed == ~result.raised /\ ~result.value.success

\* C1: a load that fails at retrieval, at decoding, at normalization or on
\* its source_type returns success = FALSE and leaves parser.current_document
\* as it was before the call; so does every load that reports a failure.
C1_FailedLoadKeepsDocument ==
  IsLoad =>
    /\ (InvalidSourceType \/ RetrievalFails \/ DecodingFails \/ NormalizationFails)
         => Failed
    /\ ~Succeeded => current_document = before

\* a document is loaded and a later load fails at normalization
C1_Witness ==
  /\ NormalizationFails
  /\ before # None
  /\ Failed
  /\ current_document = before

\* the (path, METHOD) pairs a source document describes
SourceEndpoints(spec_dict) ==
  LET paths == Get(spec_dict, "paths", <<>>)
  IN UNION {{<<paths[i][1], Upper(paths[i][2][j][1])>> :
               j \in {k \in DOMAIN paths[i][2] : IsMethodKey(paths[i][2][k][1])}}
              : i \in DOMAIN paths}

\* the names of the schemas a source document describes
SourceSchemaNames(spec_dict) ==
  LET s3 == Get(Get(spec_dict, "components", EmptyDict), "schemas", <<>>)
      s2 == Get(spec_dict, "definitions", <<>>)
  IN {s3[i][1] : i \in DOMAIN s3} \cup {s2[i][1] : i \in DOMAIN s2}

EndpointsOf(apis) == {<<apis[i].path, apis[i].method>> : i \in DOMAIN apis}

\* C2: once a load has succeeded, parser.current_document is the
\* normalization of the source loaded last, and every query answers with
\* endpoints, schemas and info of that source only.
C2_LoadReplacesDocument ==
  loaded # <<>> =>
    LET B == Last(loaded).d
        v == result.value
    IN /\ current_document # None
       /\ EndpointsOf(current_document[1].apis) = SourceEndpoints(B)
       /\ {current_document[1].schemas[i].name :
              i \in DOMAIN current_document[1].schemas} \subseteq SourceSchemaNames(B)
       /\ \A tag \in {t_pet, t_Store, t_PET} :
            EndpointsOf(get_apis_by_tag(current_document, tag))
              \subseteq SourceEndpoints(B)
       /\ \A name \in SchemaNames :
            get_schema_by_name(current_document, name) # None
              => name \in SourceSchemaNames(B)
       /\ call.tool \in {"list_apis", "search_apis"}
            => Succeeded /\ EndpointsOf(v.apis) \subseteq SourceEndpoints(B)
       /\ call.tool = "get_api_details" /\ Succeeded
            => <<v.api.path, v.api.method>> \in SourceEndpoints(B)
       /\ call.tool = "list_schemas"
            => Succeeded /\ {v.schemas[i].name : i \in DOMAIN v.schemas}
                              \subseteq SourceSchemaNames(B)
       /\ call.tool = "get_schema_details" /\ Succeeded
            => v.schema.name \in SourceSchemaNames(B)
       /\ call.tool = "get_swagger_info"
            => /\ Succeeded
               /\ v.info.title = Get(Get(B, "info", EmptyDict), "title", "Unknown API")
               /\ v.info.api_count = Len(current_document[1].apis)
               /\ v.info.servers = current_document[1].servers

\* documents A then B were loaded, A describes an endpoint B does not, and a
\* listing is answered from B
C2_Witness ==
  /\ Len(loaded) = 2
  /\ SourceEndpoints(loaded[1].d) \ SourceEndpoints(loaded[2].d) # {}
  /\ SourceSchemaNames(loaded[1].d) \ SourceSchemaNames(loaded[2].d) # {}
  /\ call.tool = "list_apis"
  /\ Succeeded
  /\ result.value.total_count > 0

\* C3: every tool call returns (it does not raise) a result with a boolean
\* 'success' and, when success is FALSE, an 'error' message.
C3_NoExceptionCrossesBoundary ==
  call.tool # "none" =>
    /\ ~result.raised
    /\ "success" \in DOMAIN result.value
    /\ result.value.success \in BOOLEAN
    /\ ~result.value.success => "error" \in DOMAIN result.value

\* a URL load whose normalization raised an exception that load_from_url does
\* not catch itself
C3_Witness ==
  /\ UrlLoad
  /\ NormalizationFails
  /\ Failed
  /\ "error" \in DOMAIN result.value

QueryTools ==
  {"get_swagger_info", "list_apis", "get_api_details", "search_apis",
   "list_schemas", "get_schema_details"}

\* C4: with no document loaded every query tool fails with an error message;
\* with a document loaded get_api_details fails when no endpoint has the path
\* and (case-insensitively) the method, and get_schema_details fails when no
\* schema has the name.
C4_NotFoundIsFailure ==
  call.tool \in QueryTools =>
    /\ current_document = None => Failed /\ "error" \in DOMAIN result.value
    /\ ( /\ current_document # None
         /\ call.tool = "get_api_details"
         /\ \A i \in DOMAIN current_document[1].apis :
              \/ current_document[1].apis[i].path # call.path
              \/ Lower(current_document[1].apis[i].method) # Lower(call.method) )
         => Failed /\ "error" \in DOMAIN result.value
    /\ ( /\ current_document # None
         /\ call.tool = "get_schema_details"
         /\ \A i \in DOMAIN current_document[1].schemas :
              current_document[1].schemas[i].name # call.name )
         => Failed /\ "error" \in DOMAIN result.value

\* a document with endpoints is loaded and get_api_details names a path it has
\* with a method it does not have
C4_Witness ==
  /\ call.tool = "get_api_details"
  /\ current_document # None
  /\ \E i \in DOMAIN current_document[1].apis :
       current_document[1].apis[i].path = call.path
  /\ \A i \in DOMAIN current_document[1].apis :
       \/ current_document[1].apis[i].path # call.path
       \/ Lower(current_document[1].apis[i].method) # Lower(call.method)
  /\ Failed

JsonDecodes == ~call.env.response.body.json.raised

YamlDecodes == ~call.env.response.body.yaml.raised

\* load_swagger reports the ValueError of parser.py line 56
DecodeErrorReported ==
  /\ Failed
  /\ result.value.error
       = "Failed to load Swagger document: Failed to parse Swagger document: {e}"

JsonContentType == Contains(n_application_json, call.env.response.content_type)

YamlContentType ==
  /\ ~JsonContentType
  /\ \/ Contains(n_application_yaml, call.env.response.content_type)
     \/ Contains(n_text_yaml, call.env.response.content_type)

\* C7 as claimed: whatever the content type, a URL load whose body JSON or
\* YAML can decode reaches normalization, and it fails with a decode error
\* only when neither decoding succeeds.
C7_AnyDecodableBodyLoads ==
  (UrlLoad /\ call.env.response.ok) =>
    (DecodeErrorReported <=> (~JsonDecodes /\ ~YamlDecodes))

\* C7 amended: the content type selects the decoding. 'application/json':
\* JSON only; 'application/yaml' or 'text/yaml': YAML only; any other: JSON
\* and, if that fails, YAML. The load fails with a decode error exactly when
\* the decoding selected fails, and otherwise normalizes what it decoded.
C7_ContentTypeSelectsDecoder ==
  (UrlLoad /\ call.env.response.ok) =>
    LET body == call.env.response.body
        decodes == IF JsonContentType THEN JsonDecodes
                   ELSE IF YamlContentType THEN YamlDecodes
                   ELSE JsonDecodes \/ YamlDecodes
        decoded == IF JsonContentType THEN body.json
                   ELSE IF YamlContentType THEN body.yaml
                   ELSE IF JsonDecodes THEN body.json
                   ELSE body.yaml
    IN /\ DecodeErrorReported <=> ~decodes
       /\ Succeeded => decodes /\ Last(loaded) = decoded.value
       /\ decodes => (Succeeded <=> ~_parse_spec(decoded.value).raised)

\* no telling content type, JSON decoding fails, YAML decoding succeeds and
\* the document is loaded
C7_Witness ==
  /\ UrlLoad
  /\ call.env.response.ok
  /\ ~JsonContentType /\ ~YamlContentType
  /\ ~JsonDecodes /\ YamlDecodes
  /\ Succeeded
  /\ current_document # before

(***************************************************************************)
(* SpecParser: the normalizer and the parser's queries applied to one      *)
(* source document, drawn from the families below                          *)
(***************************************************************************)
\* operations that differ in the fields search_apis and get_apis_by_tag read
SearchOperations ==
  {EmptyDict,
   [summary |-> t_Pet],
   [summary |-> t_empty, description |-> t_my_pEt],
   [tags |-> <<t_Store, t_PET>>],
   [summary |-> t_zz, tags |-> <<t_pet>>, deprecated |-> TRUE]}

SearchPathItems ==
  {<< <<m_get, op>> >> : op \in SearchOperations}
  \cup {<< <<k_parameters, <<[name |-> "id", in |-> "path"]>> >>,
           <<t_Post, [summary |-> t_Pet]>> >>}

SearchDicts ==
  {[paths |-> p] : p \in Dicts({t_pets, t_x, t_store}, SearchPathItems, MaxPaths)}

ParserSources == ServerDicts \cup ResponseDicts \cup SearchDicts

InitParser ==
  /\ source \in ParserSources
  /\ current_document = None
  /\ call = NoCall
  /\ result = Return(None)
  /\ before = None
  /\ loaded = <<>>
  /\ twin = None
  /\ threads = <<>>

\* parser.current_document = parser._parse_spec(source), as the loads do
NormalizeSource ==
  LET r == ParseAndStore(current_document, AsDict(source))
  IN /\ current_document' = r.slot
     /\ result' = r.out
     /\ call' = [tool |-> "_parse_spec"]
     /\ before' = current_document
     /\ UNCHANGED <<loaded, source, twin, threads>>

ParserSearch ==
  \E query \in Queries :
    /\ call' = [tool |-> "search_apis", query |-> query]
    /\ result' = Return(search_apis(current_document, query))
    /\ before' = current_document
    /\ UNCHANGED <<current_document, loaded, source, twin, threads>>

NextParser ==
  \/ NormalizeSource
  \/ ParserSearch

SpecParser == InitParser /\ [][NextParser]_vars

(***************************************************************************)
(* Claims about the normalizer and the parser's queries (SpecParser)       *)
(***************************************************************************)
Normalized == call.tool = "_parse_spec" /\ ~result.raised

HasServers == "servers" \in DOMAIN source

HasHost == "host" \in DOMAIN source

\* the url the claim describes for a source with a 'host'
SynthesizedUrl ==
  (IF "schemes" \in DOMAIN source THEN source.schemes[1] ELSE "http")
    \o "://" \o source.host
    \o (IF "basePath" \in DOMAIN source THEN source.basePath ELSE "")

\* C8 as claimed: a 'servers' sequence in the source is Document.servers
\* verbatim; without one, a 'host' yields the single synthesized entry; with
\* neither, Document.servers is empty.
C8_ServersVerbatimWhenPresent ==
  Normalized =>
    /\ HasServers => current_document[1].servers = source.servers
    /\ ~HasServers /\ HasHost
         => current_document[1].servers = <<[url |-> SynthesizedUrl]>>
    /\ ~HasServers /\ ~HasHost => current_document[1].servers = <<>>

\* C8 amended: a non-empty 'servers' sequence is Document.servers verbatim;
\* when 'servers' is absent or empty and the source has a 'host',
\* Document.servers is the single entry scheme://host+basePath (scheme the
\* first of 'schemes', "http" if absent; basePath "" if absent), and the
\* normalization fails when 'schemes' is present and empty; when 'servers' is
\* absent or empty and there is no 'host', Document.servers is empty.
C8_ServersNormalization ==
  call.tool = "_parse_spec" =>
    LET given == HasServers /\ source.servers # <<>>
        noScheme == "schemes" \in DOMAIN source /\ source.schemes = <<>>
    IN /\ result.raised <=> (~given /\ HasHost /\ noScheme)
       /\ result.raised => current_document = before
       /\ ~result.raised /\ given => current_document[1].servers = source.servers
       /\ ~result.raised /\ ~given /\ HasHost
            => current_document[1].servers = <<[url |-> SynthesizedUrl]>>
       /\ ~result.raised /\ ~given /\ ~HasHost => current_document[1].servers = <<>>
       /\ ( /\ ~given
            /\ HasHost /\ source.host = "api.example.com"
            /\ "schemes" \in DOMAIN source /\ source.schemes = <<"https">>
            /\ "basePath" \in DOMAIN source /\ source.basePath = "/v1" )
            => /\ ~result.raised
               /\ current_document[1].servers
                    = <<[url |-> "https://api.example.com/v1"]>>

\* the example of the claim, normalized
C8_Witness ==
  /\ Normalized
  /\ ~HasServers
  /\ HasHost /\ source.host = "api.example.com"
  /\ "schemes" \in DOMAIN source /\ source.schemes = <<"https">>
  /\ "basePath" \in DOMAIN source /\ source.basePath = "/v1"
  /\ current_document[1].servers = <<[url |-> "https://api.example.com/v1"]>>

\* the Responses of one operation, as the claim derives them from the source
ResponsesAsClaimed(responses, src) ==
  /\ Len(responses) = Len(src)
  /\ \A k \in DOMAIN src :
       LET data == src[k][2]
           r == responses[k]
       IN /\ r.status_code = src[k][1]
          /\ r.description
               = (IF "description" \in DOMAIN data THEN data.description ELSE "")
          /\ ("content" \in DOMAIN data /\ data.content # <<>>)
               => /\ r.content_type = Some(data.content[1][1])
                  /\ r.schema = (IF "schema" \in DOMAIN data.content[1][2]
                                 THEN Some(data.content[1][2].schema) ELSE None)
          \* an empty content map has no first key
          /\ ("content" \in DOMAIN data /\ data.content = <<>>)
               => r.content_type = None /\ r.schema = None
          /\ ("content" \notin DOMAIN data /\ "schema" \in DOMAIN data)
               => /\ r.content_type = Some("application/json")
                  /\ r.schema = Some(data.schema)
          /\ ("content" \notin DOMAIN data /\ "schema" \notin DOMAIN data)
               => r.content_type = None /\ r.schema = None

\* C9: every operation of the source has its endpoint, whose responses are
\* one per status-code key in source order, description "" when absent,
\* content_type and schema taken (a) from the first entry of the 'content'
\* map if there is one, (b) else from a bare 'schema' with content_type
\* 'application/json', (c) else both unset.
C9_ResponsePrecedence ==
  Normalized =>
    LET paths == Get(source, "paths", <<>>)
        apis == current_document[1].apis
    IN \A i \in DOMAIN paths : \A j \in DOMAIN paths[i][2] :
         IsMethodKey(paths[i][2][j][1]) =>
           \E a \in DOMAIN apis :
             /\ apis[a].path = paths[i][1]
             /\ apis[a].method = Upper(paths[i][2][j][1])
             /\ ResponsesAsClaimed(apis[a].responses,
                                   Get(paths[i][2][j][2], "responses", <<>>))

\* an operation with two responses; the first has a content map of two
\* content types and a bare schema as well, the second only a bare schema
C9_Witness ==
  /\ Normalized
  /\ "paths" \in DOMAIN source
  /\ Len(source.paths) = 1
  /\ IsMethodKey(source.paths[1][2][1][1])
  /\ LET responses == Get(source.paths[1][2][1][2], "responses", <<>>)
     IN /\ Len(responses) = 2
        /\ "content" \in DOMAIN responses[1][2]
        /\ Len(responses[1][2].content) = 2
        /\ "schema" \in DOMAIN responses[1][2]
        /\ "content" \notin DOMAIN responses[2][2]
        /\ "schema" \in DOMAIN responses[2][2]
  /\ current_document[1].apis[1].responses[1].content_type = Some("application/xml")
  /\ current_document[1].apis[1].responses[2].content_type = Some("application/json")

\* the texts of an endpoint that the claim says are searched
SearchedTexts(api) ==
  {api.path, api.method}
  \cup {api.summary[k] : k \in DOMAIN api.summary}
  \cup {api.description[k] : k \in DOMAIN api.description}
  \cup {api.tags[k] : k \in DOMAIN api.tags}

MatchesAsClaimed(api, query) ==
  \E text \in SearchedTexts(api) : Contains(Lower(query), Lower(text))

\* C10: search_apis(query) returns, in document order, exactly the endpoints
\* of the current document of which the path, the method, the summary, the
\* description or a tag contains the query, case-insensitively; and an empty
\* list when no document is loaded.
C10_SearchIsCaseInsensitiveSubstring ==
  call.tool = "search_apis" =>
    /\ ~result.raised
    /\ current_document = None => result.value = <<>>
    /\ current_document # None
         => result.value = SelectSeq(current_document[1].apis,
                                     LAMBDA api : MatchesAsClaimed(api, call.query))

\* search('pet') returns an endpoint whose summary is 'Pet' and whose path
\* does not contain 'pet', and leaves another endpoint out
C10_Witness ==
  /\ call.tool = "search_apis"
  /\ call.query = t_pet
  /\ current_document # None
  /\ Len(result.value) < Len(current_document[1].apis)
  /\ \E i \in DOMAIN result.value :
       /\ result.value[i].summary = Some(t_Pet)
       /\ ~Contains(t_pet, Lower(result.value[i].path))
       /\ result.value[i].description = None
       /\ result.value[i].tags = <<>>

(***************************************************************************)
(* SpecDialects: one API written as a Swagger 2.0 and as an OpenAPI 3.0    *)
(* document, each loaded into a SwaggerParser of its own                   *)
(***************************************************************************)
\* operations, dialect-free: parameters carry a type, a response a schema,
\* the operation the media type it produces and possibly a request body;
\* a schema is written inline or names a schema of the API
opPlain ==
  [tags |-> <<>>, parameters |-> <<>>, responses |-> <<>>,
   produces |-> "application/json", body |-> None]

opPets ==
  [tags |-> <<t_pet>>, summary |-> t_Pet,
   parameters |-> <<[name |-> "id", in |-> "path", type |-> "integer",
                     required |-> TRUE]>>,
   responses |-> <<[code |-> "200", description |-> "ok", schema |-> Some(schemaList)],
                   [code |-> "404", description |-> "none", schema |-> None]>>,
   produces |-> "application/json", body |-> None]

opStore ==
  [tags |-> <<t_Store, t_PET>>, description |-> t_my_pEt,
   parameters |-> <<[name |-> "q", in |-> "query", type |-> "string",
                     required |-> FALSE]>>,
   responses |-> <<[code |-> "default", description |-> "any",
                    schema |-> Some(schemaError)]>>,
   produces |-> "application/xml", body |-> None]

opCreate ==
  [tags |-> <<t_pet>>, operationId |-> "createPet",
   parameters |-> <<>>,
   responses |-> <<[code |-> "201", description |-> "created",
                    schema |-> Some([named |-> "Pet"])]>>,
   produces |-> "application/json", body |-> Some([named |-> "Pet"])]

ApiPathItems ==
  {<< <<m_get, opPlain>> >>,
   << <<m_get, opPets>> >>,
   << <<m_get, opStore>> >>,
   << <<t_Post, opCreate>>, <<m_get, opPets>> >>}

ApiSchemas ==
  {<<>>,
   << <<"Order", [properties |-> << <<"id", [type |-> "integer"]>>,
                                    <<"pets", [type |-> "array",
                                               items |-> [named |-> "Pet"]]>> >>]>>,
      <<"Pet", [type |-> "object", required |-> <<"id">>,
                properties |-> << <<"id", [type |-> "integer"]>>,
                                  <<"name", [type |-> "string"]>> >>]>> >>}

LogicalApis ==
  {[paths |-> p, schemas |-> sch] :
     p \in Dicts({t_pets, t_x, t_store}, ApiPathItems, MaxPaths), sch \in ApiSchemas}

\* a schema as a dialect writes it: a named schema becomes a $ref under prefix
RenderSchema(prefix, schema) ==
  IF "named" \in DOMAIN schema THEN [ref |-> prefix \o schema.named] ELSE schema

RenderSchemas(prefix, schemas) ==
  [i \in DOMAIN schemas |->
     <<schemas[i][1],
       IF "properties" \in DOMAIN schemas[i][2]
       THEN [schemas[i][2] EXCEPT !.properties =
               [k \in DOMAIN @ |->
                  <<@[k][1],
                    IF "items" \in DOMAIN @[k][2]
                    THEN [@[k][2] EXCEPT !.items = RenderSchema(prefix, @)]
                    ELSE @[k][2]>>]]
       ELSE schemas[i][2]>>]

\* the fields of an operation that both dialects write alike
CommonOperationFields(op) ==
  [k \in DOMAIN op \ {"parameters", "responses", "produces", "body"} |-> op[k]]

Swagger2Operation(op) ==
  CommonOperationFields(op)
  @@ [produces |-> <<op.produces>>,
      parameters |->
        [i \in DOMAIN op.parameters |->
           [name |-> op.parameters[i].name, in |-> op.parameters[i].in,
            required |-> op.parameters[i].required,
            type |-> op.parameters[i].type]]
        \o (IF op.body = None THEN <<>>
            ELSE <<[name |-> "body", in |-> "body", required |-> TRUE,
                    schema |-> RenderSchema("#/definitions/", op.body[1])]>>),
      responses |->
        [i \in DOMAIN op.responses |->
           <<op.responses[i].code,
             IF op.responses[i].schema = None
             THEN [description |-> op.responses[i].description]
             ELSE [description |-> op.responses[i].description,
                   schema |-> RenderSchema("#/definitions/",
                                           op.responses[i].schema[1])]>>]]

OpenApi3Operation(op) ==
  CommonOperationFields(op)
  @@ (IF op.body = None THEN EmptyDict
      ELSE [requestBody |->
              [content |-> << <<"application/json",
                                [schema |-> RenderSchema("#/components/schemas/",
                                                         op.body[1])]>> >>]])
  @@ [parameters |->
        [i \in DOMAIN op.parameters |->
           [name |-> op.parameters[i].name, in |-> op.parameters[i].in,
            required |-> op.parameters[i].required,
            schema |-> [type |-> op.parameters[i].type]]],
      responses |->
        [i \in DOMAIN op.responses |->
           <<op.responses[i].code,
             IF op.responses[i].schema = None
             THEN [description |-> op.responses[i].description]
             ELSE [description |-> op.responses[i].description,
                   content |-> << <<op.produces,
                                    [schema |-> RenderSchema("#/components/schemas/",
                                                  op.responses[i].schema[1])]>> >>]>>]]

\* the paths of an API with every operation written by render
RenderPaths(paths, render(_)) ==
  [i \in DOMAIN paths |->
     <<paths[i][1],
       [j \in DOMAIN paths[i][2] |->
          <<paths[i][2][j][1], render(paths[i][2][j][2])>>]>>]

Swagger2Document(api) ==
  [swagger |-> "2.0",
   info |-> [title |-> "Pet API", version |-> "1.0.0"],
   host |-> "api.example.com", schemes |-> <<"https">>, basePath |-> "/v1",
   paths |-> RenderPaths(api.paths, Swagger2Operation),
   definitions |-> RenderSchemas("#/definitions/", api.schemas)]

OpenApi3Document(api) ==
  [openapi |-> "3.0.0",
   info |-> [title |-> "Pet API", version |-> "1.0.0"],
   servers |-> <<[url |-> "https://api.example.com/v1"]>>,
   paths |-> RenderPaths(api.paths, OpenApi3Operation),
   components |-> [schemas |-> RenderSchemas("#/components/schemas/", api.schemas)]]

InitDialects ==
  /\ source \in {[swagger2 |-> Swagger2Document(api),
                   openapi3 |-> OpenApi3Document(api)] : api \in LogicalApis}
  /\ current_document = None
  /\ call = NoCall
  /\ result = Return(None)
  /\ before = None
  /\ loaded = <<>>
  /\ twin = None
  /\ threads = <<>>

\* each parser loads its dialect of the API
LoadBoth ==
  /\ current_document' = ParseAndStore(current_document, AsDict(source.swagger2)).slot
  /\ twin' = ParseAndStore(twin, AsDict(source.openapi3)).slot
  /\ call' = [tool |-> "_parse_spec"]
  /\ result' = Return(None)
  /\ before' = current_document
  /\ UNCHANGED <<loaded, source, threads>>

\* the same query put to both parsers; the result is the pair of answers
AskBoth(c, answer2, answer3) ==
  /\ call' = c
  /\ result' = Return(<<answer2, answer3>>)
  /\ before' = current_document
  /\ UNCHANGED <<current_document, loaded, source, twin, threads>>

ByTagBoth ==
  \E tag \in {t_pet, t_Store} :
    AskBoth([tool |-> "get_apis_by_tag", tag |-> tag],
            get_apis_by_tag(current_document, tag), get_apis_by_tag(twin, tag))

SearchBoth ==
  \E query \in {t_pet, t_zz} :
    AskBoth([tool |-> "search_apis", query |-> query],
            search_apis(current_document, query), search_apis(twin, query))

ByNameBoth ==
  \E name \in {"Pet", "Order"} :
    AskBoth([tool |-> "get_schema_by_name", name |-> name],
            get_schema_by_name(current_document, name),
            get_schema_by_name(twin, name))

DetailBoth ==
  \E path \in {t_pets, t_x}, method \in {m_get, t_Post} :
    AskBoth([tool |-> "get_api_details", path |-> path, method |-> method],
            get_api_details(current_document, current_document, path, method),
            get_api_details(twin, twin, path, method))

NextDialects ==
  \/ LoadBoth
  \/ ByTagBoth
  \/ SearchBoth
  \/ ByNameBoth
  \/ DetailBoth

SpecDialects == InitDialects /\ [][NextDialects]_vars

PathMethodPairs(apis) == [i \in DOMAIN apis |-> <<apis[i].path, apis[i].method>>]

SameCounts ==
  /\ (current_document = None) <=> (twin = None)
  /\ current_document # None =>
       /\ Len(current_document[1].apis) = Len(twin[1].apis)
       /\ Len(current_document[1].schemas) = Len(twin[1].schemas)
       /\ PathMethodPairs(current_document[1].apis) = PathMethodPairs(twin[1].apis)

DialectQueries ==
  {"get_apis_by_tag", "search_apis", "get_schema_by_name", "get_api_details"}

EndpointCore(api) ==
  [path |-> api.path, method |-> api.method, operation_id |-> api.operation_id,
   summary |-> api.summary, description |-> api.description, tags |-> api.tags,
   deprecated |-> api.deprecated,
   parameters |-> SelectSeq(api.parameters, LAMBDA q : q.location # "body"),
   responses |-> [i \in DOMAIN api.responses |->
                    [status_code |-> api.responses[i].status_code,
                     description |-> api.responses[i].description]]]

\* a schema without the nested trees of its properties
SchemaCore(schema) ==
  [name |-> schema.name, type |-> schema.type, description |-> schema.description,
   required |-> schema.required,
   properties |-> [i \in DOMAIN schema.properties |->
                     [name |-> schema.properties[i].name,
                      type |-> schema.properties[i].type,
                      required |-> schema.properties[i].required]]]

AnswerCore(tool, answer) ==
  CASE tool \in {"get_apis_by_tag", "search_apis"} ->
         [found |-> [i \in DOMAIN answer |-> EndpointCore(answer[i])]]
    [] tool = "get_schema_by_name" ->
         [found |-> [i \in DOMAIN answer |-> SchemaCore(answer[i])]]
    [] tool = "get_api_details" ->
         IF answer.value.success
         THEN [found |-> <<EndpointCore(answer.value.api)>>]
         ELSE [found |-> <<>>]

Idle == [pc |-> "idle"]

ReaderCalls ==
  {[tool |-> "get_swagger_info"],
   [tool |-> "list_schemas"],
   [tool |-> "list_apis", tag |-> None, method |-> Some(m_get)],
   [tool |-> "list_apis", tag |-> Some(t_pet), method |-> None],
   [tool |-> "get_api_details", path |-> t_pets, method |-> m_get],
   [tool |-> "search_apis", query |-> t_pet],
   [tool |-> "get_schema_details", name |-> "Pet"]}

\* how often a tool reads parser.current_document when it does not return early
ReadsOf(tool) == IF tool \in {"search_apis", "get_schema_details"} THEN 3 ELSE 2

\* the reader has another read of parser.current_document to make
NeedsRead(c, reads) ==
  /\ Len(reads) < ReadsOf(c.tool)
  /\ \A k \in DOMAIN reads : reads[k] # None

\* the tool of call c, given what its reads returned
ApplyTool(c, r1, r2, r3) ==
  CASE c.tool = "get_swagger_info" -> get_swagger_info(r1, r2)
    [] c.tool = "list_schemas" -> list_schemas(r1, r2)
    [] c.tool = "list_apis" -> list_apis(r1, r2, c.tag, c.method)
    [] c.tool = "get_api_details" -> get_api_details(r1, r2, c.path, c.method)
    [] c.tool = "search_apis" -> search_apis_tool(r1, r2, r3, c.query)
    [] c.tool = "get_schema_details" -> get_schema_details(r1, r2, r3, c.name)

\* the k-th read, None when the tool returned before it
ReadAt(reads, k) == IF k <= Len(reads) THEN reads[k] ELSE None

\* the loads of the loading thread: files, and URLs that answer with JSON
ConcurrentEnvs(source_type) ==
  {env \in Envs(source_type) :
     \/ ~env.response.ok
     \/ env.response.content_type = ct_json /\ ~env.response.body.json.raised}

InitConcurrent ==
  /\ current_document = None
  /\ threads = [loader |-> Idle, reader |-> Idle]
  /\ call = NoCall
  /\ result = Return(None)
  /\ before = None
  /\ loaded = <<>>
  /\ source = EmptyDict
  /\ twin = None

Unused == UNCHANGED <<call, result, before, loaded, source, twin>>

\* load_swagger is called: retrieval, decoding and _parse_spec, in which
\* nothing shared is read or written
LoaderBuild ==
  /\ threads.loader.pc \in {"idle", "done"}
  /\ \E source_type \in {st_url, st_file, st_ftp} :
     \E env \in ConcurrentEnvs(source_type) :
       LET attempt == LoadAttempt(None, source_type, env)
       IN threads' = [threads EXCEPT !.loader =
            IF ~ValidSourceType(source_type)
            THEN [pc |-> "done", result |-> InvalidSourceTypeResult]
            ELSE IF attempt.out.raised
            THEN [pc |-> "done", result |-> CatchException(attempt.out)]
            ELSE [pc |-> "store", built |-> attempt.slot]]
  /\ UNCHANGED current_document
  /\ Unused

\* self.current_document = <the document built>
LoaderStore ==
  /\ threads.loader.pc = "store"
  /\ current_document' = threads.loader.built
  /\ threads' = [threads EXCEPT
        !.loader = [pc |-> "return"],
        !.reader = IF @.pc = "run"
                   THEN [@ EXCEPT !.seen = @ \cup {threads.loader.built}]
                   ELSE @]
  /\ Unused

\* return self.current_document, and load_swagger's result from it
LoaderReturn ==
  /\ threads.loader.pc = "return"
  /\ threads' = [threads EXCEPT !.loader =
        [pc |-> "done",
         result |-> FinishLoad([slot |-> current_document,
                                out |-> Return(current_document[1])]).out]]
  /\ UNCHANGED current_document
  /\ Unused

\* a query tool is called
ReaderStart ==
  /\ threads.reader.pc \in {"idle", "done"}
  /\ \E c \in ReaderCalls :
       threads' = [threads EXCEPT !.reader =
                     [pc |-> "run", call |-> c, reads |-> <<>>,
                      seen |-> {current_document}]]
  /\ UNCHANGED current_document
  /\ Unused

\* one evaluation of parser.current_document
ReaderRead ==
  /\ threads.reader.pc = "run"
  /\ NeedsRead(threads.reader.call, threads.reader.reads)
  /\ threads' = [threads EXCEPT !.reader.reads = Append(@, current_document)]
  /\ UNCHANGED current_document
  /\ Unused

\* the tool returns
ReaderReturn ==
  /\ threads.reader.pc = "run"
  /\ ~NeedsRead(threads.reader.call, threads.reader.reads)
  /\ LET me == threads.reader
     IN threads' = [threads EXCEPT !.reader =
          [pc |-> "done", call |-> me.call, reads |-> me.reads, seen |-> me.seen,
           result |-> ApplyTool(me.call, ReadAt(me.reads, 1), ReadAt(me.reads, 2),
                                ReadAt(me.reads, 3))]]
  /\ UNCHANGED current_document
  /\ Unused

NextConcurrent ==
  \/ LoaderBuild
  \/ LoaderStore
  \/ LoaderReturn
  \/ ReaderStart
  \/ ReaderRead
  \/ ReaderReturn

SpecConcurrent == InitConcurrent /\ [][NextConcurrent]_vars

\* every decoded source a load can be given
LoadableSources ==
  {b.json.value : b \in {x \in Bodies : ~x.json.raised}}
  \cup {b.yaml.value : b \in {x \in Bodies : ~x.yaml.raised}}
  \cup {f.read.value : f \in {x \in Files : ~x.read.raised}}

FullyNormalized(slot) ==
  \/ slot = None
  \/ \E decoded \in LoadableSources :
       /\ ~_parse_spec(decoded).raised
       /\ slot = Some(_parse_spec(decoded).value)

\* C5: with loads and queries interleaved, parser.current_document is always
\* None or a fully normalized document, and the result of every query is the
\* one the tool computes from a single value that parser.current_document had
\* during the call, however many times the tool read it.
C5_ConsistentSnapshot ==
  /\ FullyNormalized(current_document)
  /\ threads.reader.pc = "done" =>
       /\ ~threads.reader.result.raised
       /\ \E d \in threads.reader.seen :
            threads.reader.result = ApplyTool(threads.reader.call, d, d, d)

\* a load published another document between two reads of one query, and the
\* results computed from the two documents differ
C5_Witness ==
  /\ threads.reader.pc = "done"
  /\ Len(threads.reader.reads) >= 2
  /\ threads.reader.reads[1] # None
  /\ threads.reader.reads[1] # threads.reader.reads[2]
  /\ threads.reader.result.value.success
  /\ LET d == threads.reader.reads[1]
     IN ApplyTool(threads.reader.call, d, d, d) # threads.reader.result

(***************************************************************************)
(* SpecLookup: the lookups by tag and by (path, method), through the       *)
(* parser and through the tools, on one normalized source document         *)
(***************************************************************************)
\* the sources: path items whose operations differ in tags, and one with the
\* method keys 'get' and 'GET'
InitLookup ==
  /\ LET LookupPathItems ==
           {<< <<m_get, EmptyDict>> >>,
            << <<m_get, [tags |-> <<t_pet>>]>> >>,
            << <<m_get, [tags |-> <<t_Store, t_PET>>]>> >>,
            << <<m_get, [summary |-> t_Pet, tags |-> <<t_pet>>]>>,
               <<t_GET, [summary |-> t_zz, tags |-> <<t_Pet>>]>> >>,
            << <<k_parameters, <<[name |-> "id", in |-> "path"]>> >>,
               <<t_Post, [tags |-> <<t_PET>>]>> >>}
     IN source \in {[paths |-> p] :
                      p \in Dicts({t_pets, t_x, t_store}, LookupPathItems, MaxPaths)}
  /\ current_document = None
  /\ call = NoCall
  /\ result = Return(None)
  /\ before = None
  /\ loaded = <<>>
  /\ twin = None
  /\ threads = <<>>

LookupByTag ==
  \E tag \in {t_pet, t_PET, t_Store, t_empty} :
    Query([tool |-> "get_apis_by_tag", tag |-> tag],
          Return(get_apis_by_tag(current_document, tag)))

NextLookup ==
  \/ NormalizeSource
  \/ LookupByTag
  \/ ListApis
  \/ GetApiDetails

SpecLookup == InitLookup /\ [][NextLookup]_vars

HasTag(api, tag) == \E k \in DOMAIN api.tags : api.tags[k] = tag

\* C11: get_apis_by_tag(tag) returns, in document order, exactly the
\* endpoints of the current document that have a tag equal to tag, compared
\* exactly and case-sensitively; it returns an empty sequence, and raises
\* nothing, when no document is loaded or no endpoint has the tag.
C11_ByTagIsExact ==
  call.tool = "get_apis_by_tag" =>
    /\ ~result.raised
    /\ current_document = None => result.value = <<>>
    /\ current_document # None
         => result.value = SelectSeq(current_document[1].apis,
                                     LAMBDA api : HasTag(api, call.tag))

\* by_tag('pet') returns an endpoint tagged 'pet' and leaves out an endpoint
\* whose only tag is 'PET'
C11_Witness ==
  /\ call.tool = "get_apis_by_tag"
  /\ call.tag = t_pet
  /\ current_document # None
  /\ result.value # <<>>
  /\ \E i \in DOMAIN current_document[1].apis :
       /\ current_document[1].apis[i].tags = <<t_PET>>
       /\ \A k \in DOMAIN result.value :
            result.value[k].tags # <<t_PET>>

\* the (path, METHOD) pair of every method key of the source, in source order
SourceMethodKeys ==
  LET paths == Get(source, "paths", <<>>)
  IN Flatten([i \in DOMAIN paths |->
       LET keys == SelectSeq(paths[i][2], LAMBDA entry : IsMethodKey(entry[1]))
       IN [j \in DOMAIN keys |-> <<paths[i][1], Upper(keys[j][1])>>]])

\* the positions in Document.apis of the endpoints detail(path, method) matches
DetailMatches(apis, path, method) ==
  {i \in DOMAIN apis : apis[i].path = path /\ Lower(apis[i].method) = Lower(method)}

\* C12: every method key of the source yields an endpoint of Document.apis,
\* repeated (path, method) pairs included, and get_api_details(path, method)
\* matches the path exactly and the method ignoring case, returns the
\* earliest matching endpoint of Document.apis, and fails when none matches.
C12_DetailFirstMatch ==
  current_document # None =>
    LET apis == current_document[1].apis
    IN /\ PathMethodPairs(apis) = SourceMethodKeys
       /\ call.tool = "get_api_details" =>
            LET hits == DetailMatches(apis, call.path, call.method)
            IN /\ ~result.raised
               /\ result.value.success <=> hits # {}
               /\ hits # {} =>
                    \E i \in hits :
                      /\ \A j \in hits : i <= j
                      /\ result.value.api = apis[i]

\* the source has the method keys 'get' and 'GET' under one path, both are
\* endpoints of Document.apis, and detail returns the first, not the second
C12_Witness ==
  /\ current_document # None
  /\ call.tool = "get_api_details"
  /\ call.method = t_GET
  /\ result.value.success
  /\ LET apis == current_document[1].apis
         hits == DetailMatches(apis, call.path, call.method)
     IN /\ \E i, j \in hits : i < j /\ apis[i] # apis[j]
        /\ result.value.api.summary = Some(t_Pet)
        /\ \E j \in hits : apis[j].summary = Some(t_zz)

ListedByTag == call.tool = "list_apis" /\ call.tag # None /\ call.method = None

Listing(apis) == [i \in DOMAIN apis |-> ApiListEntry(apis[i])]

\* C13 as stated, for a tag t that is not empty: with a document loaded,
\* list_apis(tag=t) without a method filter lists exactly the endpoints
\* get_apis_by_tag(t) returns, in the same order, and total_count is their
\* number.
C13_ListApisIsByTag ==
  ListedByTag /\ current_document # None /\ call.tag # Some(t_empty) =>
    LET tagged == get_apis_by_tag(current_document, call.tag[1])
    IN /\ result.value.success
       /\ result.value.apis = Listing(tagged)
       /\ result.value.total_count = Len(tagged)

HasTagIgnoringCase(api, tag) ==
  \E k \in DOMAIN api.tags : Lower(api.tags[k]) = Lower(tag)

\* C13, amended: with a document loaded, list_apis(tag=t) without a method
\* filter lists, in document order, the endpoints that have a tag equal to t
\* when case is ignored, and every endpoint when t is the empty string;
\* total_count is their number, and every endpoint get_apis_by_tag(t) returns
\* for a non-empty t is among them.
C13_ListApisIgnoresCase ==
  ListedByTag /\ current_document # None =>
    LET t == call.tag[1]
        apis == current_document[1].apis
        listed == IF t = t_empty THEN apis
                  ELSE SelectSeq(apis, LAMBDA api : HasTagIgnoringCase(api, t))
        tagged == get_apis_by_tag(current_document, t)
    IN /\ ~result.raised
       /\ result.value.success
       /\ result.value.apis = Listing(listed)
       /\ result.value.total_count = Len(listed)
       /\ t # t_empty =>
            \A i \in DOMAIN tagged :
              \E k \in DOMAIN listed : listed[k] = tagged[i]

\* list_apis(tag='pet') lists an endpoint whose only tag is 'PET', which
\* get_apis_by_tag('pet') does not return, next to one that it returns
C13_Witness ==
  /\ ListedByTag
  /\ current_document # None
  /\ call.tag = Some(t_pet)
  /\ LET tagged == get_apis_by_tag(current_document, t_pet)
     IN /\ tagged # <<>>
        /\ result.value.total_count > Len(tagged)
        /\ \E k \in DOMAIN result.value.apis : result.value.apis[k].tags = <<t_PET>>
====
